---- MODULE Spec2Model ----
(***************************************************************************)
(* Kolam Art Studio (src/main3.py): the SQLite-backed account, artwork and  *)
(* like store and the Streamlit handlers that call it.                      *)
(*                                                                          *)
(* Every browser session runs the script on its own; each store function    *)
(* opens its own connection, so the sessions interleave at the level of     *)
(* the statements they send to the database: a write is an execute step     *)
(* (the statement runs inside the implicit transaction and takes the        *)
(* database's write lock) followed by a commit step.  A writer that finds   *)
(* the lock taken waits in SQLite's busy handler; the model lets it wait.   *)
(*                                                                          *)
(* Text values (usernames, titles, search terms, timestamps) are sequences  *)
(* of characters so that lower(), substring search and text comparison are  *)
(* computed and not assumed.                                                *)
(***************************************************************************)
EXTENDS Integers, Sequences, FiniteSets, TLC

VARIABLES users, artworks, session, pc, job, lock, page,
          created, signupOk, likeCalls, stamp, savedBy

\* users, artworks : the committed rows of the two tables, in rowid order
\* session         : st.session_state.user_id and .username of each session
\* pc, job         : where each session's running handler stands, and what it
\*                   holds (its arguments, the rows its open transaction has
\*                   staged, the value authenticate_user returned)
\* lock            : the connections holding the database's write lock
\* page            : what the last script run of the direct-call harness drew
\* created, signupOk, likeCalls, stamp, savedBy : records of the calls made
\*                   (accounts created, signups that returned True, committed
\*                   like_artwork calls per artwork, datetime.now() and the
\*                   saving session's user_id of every artwork)
vars == <<users, artworks, session, pc, job, lock, page,
          created, signupOk, likeCalls, stamp, savedBy>>

-----------------------------------------------------------------------------
(* Bounds of the model *)

NumSessions == 2
MaxArtworks == 2
MaxLikes == 2

Sessions == 1..NumSessions

\* Python's None, and a value that is not None
None == <<>>
Some(v) == << v >>
ValueOf(opt) == opt[1]

(* Inputs typed into the widgets *)
Usernames == { <<"a">>, <<"K">> }
Passwords == { "p", "q" }
AppPasswords == { "p" }
Titles == { <<"K", "o">> }
Terms == { <<>>, <<"k">> }

GalleryTitles == { <<"K", "o">>, <<"s">> }
GalleryTerms == { <<>>, <<"k">>, <<"O">>, <<"a">>, <<"o", "k">> }
Images == { "png", "corrupt" }

(* Readings of datetime.datetime.now(): a whole second and its microseconds *)
Times == { [sec |-> 0, usec |-> 0] }
GalleryTimes == { [sec |-> 0, usec |-> 0], [sec |-> 0, usec |-> 1],
                  [sec |-> 1, usec |-> 0] }

-----------------------------------------------------------------------------
(* Text *)

\* str.lower() on one character
LowerChar(c) ==
    CASE c = "A" -> "a"
      [] c = "K" -> "k"
      [] c = "O" -> "o"
      [] c = "S" -> "s"
      [] OTHER -> c

\* str.lower()
Lower(str) == [i \in 1..Len(str) |-> LowerChar(str[i])]

\* Python's  needle in hay  on strings
Contains(hay, needle) ==
    \E i \in 0..(Len(hay) - Len(needle)) :
        SubSeq(hay, i + 1, i + Len(needle)) = needle

\* Python's  text[:n]
Prefix(text, n) == SubSeq(text, 1, IF Len(text) < n THEN Len(text) ELSE n)

\* datetime.isoformat(): the microseconds are left out when they are zero.
\* The fixed-width date-and-seconds part is one digit here, the fixed-width
\* microseconds part another; characters are their ASCII codes.
isoformat(t) ==
    IF t.usec = 0 THEN << 48 + t.sec >>
    ELSE << 48 + t.sec, 46, 48 + t.usec >>

\* SQLite's BINARY collation on TEXT: memcmp, then the shorter text first
RECURSIVE TextLess(_, _)
TextLess(a, b) ==
    IF b = <<>> THEN FALSE
    ELSE IF a = <<>> THEN TRUE
    ELSE IF Head(a) # Head(b) THEN Head(a) < Head(b)
    ELSE TextLess(Tail(a), Tail(b))

-----------------------------------------------------------------------------
(* The store *)

\* hashlib.sha256(password.encode()).hexdigest(): a deterministic digest,
\* distinct for distinct passwords
hash_password(password) == << "sha256", password >>

RECURSIVE MaxId(_)
MaxId(tbl) ==
    IF tbl = <<>> THEN 0
    ELSE LET m == MaxId(Tail(tbl)) IN IF Head(tbl).id > m THEN Head(tbl).id ELSE m

\* INTEGER PRIMARY KEY without a value: one more than the largest rowid
NextId(tbl) == MaxId(tbl) + 1

\* a users table whose username column is not UNIQUE
NoUniqueConstraint(tbl, username) == FALSE

\* username TEXT UNIQUE
UniqueViolation(tbl, username) ==
    \E i \in 1..Len(tbl) : tbl[i].username = username

\* the row create_user inserts
UserRow(tbl, username, password) ==
    [id |-> NextId(tbl), username |-> username, password |-> hash_password(password)]

\* a lookup that compares the stored digest with the password as typed
authenticate_unhashed(tbl, username, password) ==
    LET hit == { i \in 1..Len(tbl) : /\ tbl[i].username = username
                                     /\ tbl[i].password = password }
    IN IF hit = {} THEN None
       ELSE Some(tbl[CHOOSE i \in hit : \A j \in hit : i <= j].id)

\* a lookup by username alone
authenticate_by_name(tbl, username, password) ==
    LET hit == { i \in 1..Len(tbl) : tbl[i].username = username }
    IN IF hit = {} THEN None
       ELSE Some(tbl[CHOOSE i \in hit : \A j \in hit : i <= j].id)

\* SELECT id FROM users WHERE username = ? AND password = ?  ... fetchone()
authenticate_user(tbl, username, password) ==
    LET hit == { i \in 1..Len(tbl) : /\ tbl[i].username = username
                                     /\ tbl[i].password = hash_password(password) }
    IN IF hit = {} THEN None
       ELSE Some(tbl[CHOOSE i \in hit : \A j \in hit : i <= j].id)

\* the row save_artwork inserts; likes takes the column's DEFAULT 0
ArtworkRow(tbl, user_id, title, image_data, now) ==
    [id |-> NextId(tbl), user_id |-> user_id, title |-> title,
     image_data |-> image_data, likes |-> 0, created_at |-> isoformat(now)]

\* the UPDATE without its WHERE clause
LikeUpdateAll(tbl, artwork_id) ==
    [i \in 1..Len(tbl) |-> [tbl[i] EXCEPT !.likes = @ + 1]]

\* UPDATE artworks SET likes = likes + 1 WHERE id = ?
LikeUpdate(tbl, artwork_id) ==
    [i \in 1..Len(tbl) |->
        IF tbl[i].id = artwork_id
        THEN [tbl[i] EXCEPT !.likes = @ + 1]
        ELSE tbl[i]]

\* a JOIN users u ON a.user_id = u.id, artworks scanned in rowid order
RECURSIVE JoinRows(_, _)
JoinRows(arts, usrs) ==
    IF arts = <<>> THEN <<>>
    ELSE LET a == Head(arts)
             us == { i \in 1..Len(usrs) : usrs[i].id = a.user_id }
             rest == JoinRows(Tail(arts), usrs)
         IN IF us = {} THEN rest
            ELSE << [id |-> a.id, title |-> a.title, image_data |-> a.image_data,
                     likes |-> a.likes, created_at |-> a.created_at,
                     username |-> usrs[CHOOSE i \in us : TRUE].username] >> \o rest

\* a sorter that puts a row in front of the rows with an equal key
RECURSIVE InsertDescUnstable(_, _)
InsertDescUnstable(sorted, row) ==
    IF sorted = <<>> THEN << row >>
    ELSE IF ~ TextLess(row.created_at, Head(sorted).created_at)
         THEN << row >> \o sorted
         ELSE << Head(sorted) >> \o InsertDescUnstable(Tail(sorted), row)

\* the sorter puts a row behind every row already there whose key is not smaller
RECURSIVE InsertDesc(_, _)
InsertDesc(sorted, row) ==
    IF sorted = <<>> THEN << row >>
    ELSE IF TextLess(Head(sorted).created_at, row.created_at)
         THEN << row >> \o sorted
         ELSE << Head(sorted) >> \o InsertDesc(Tail(sorted), row)

\* ORDER BY a.created_at DESC
RECURSIVE OrderByCreatedDesc(_, _)
OrderByCreatedDesc(sorted, rows) ==
    IF rows = <<>> THEN sorted
    ELSE OrderByCreatedDesc(InsertDesc(sorted, Head(rows)), Tail(rows))

get_artworks(arts, usrs) == OrderByCreatedDesc(<<>>, JoinRows(arts, usrs))

-----------------------------------------------------------------------------
(* The Community Gallery page *)

\* base64.b64decode + Image.open inside try / except
ShownImage(image_data) ==
    IF image_data = "png" THEN "image" ELSE "Image not available"

\* the filter without lower() on the title and the artist
SkippedCaseSensitive(row, search_term) ==
    /\ search_term # <<>>
    /\ ~ Contains(row.title, Lower(search_term))
    /\ ~ Contains(row.username, Lower(search_term))

\* if search_term and ... not in title.lower() and ... not in artist.lower(): continue
Skipped(row, search_term) ==
    /\ search_term # <<>>
    /\ ~ Contains(Lower(row.title), Lower(search_term))
    /\ ~ Contains(Lower(row.username), Lower(search_term))

Card(row) ==
    [artwork_id |-> row.id, image |-> ShownImage(row.image_data),
     title |-> row.title, artist |-> row.username,
     created |-> Prefix(row.created_at, 10), likes |-> row.likes]

\* for artwork in artworks: ...
RECURSIVE GalleryCards(_, _)
GalleryCards(rows, search_term) ==
    IF rows = <<>> THEN <<>>
    ELSE IF Skipped(Head(rows), search_term)
         THEN GalleryCards(Tail(rows), search_term)
         ELSE << Card(Head(rows)) >> \o GalleryCards(Tail(rows), search_term)

-----------------------------------------------------------------------------
(* State *)

NoJob == [op |-> "none"]
NoPage == [kind |-> "none"]
LoggedOut == [user_id |-> None, username |-> None]

Init ==
    /\ users = <<>>
    /\ artworks = <<>>
    /\ session = [s \in Sessions |-> LoggedOut]
    /\ pc = [s \in Sessions |-> "idle"]
    /\ job = [s \in Sessions |-> NoJob]
    /\ lock = {}
    /\ page = NoPage
    /\ created = {}
    /\ signupOk = [u \in Usernames |-> 0]
    /\ likeCalls = <<>>
    /\ stamp = <<>>
    /\ savedBy = <<>>

\* a database without a write lock
CanWriteUnlocked(s) == TRUE

\* a statement that writes waits until no other connection holds the write lock
CanWrite(s) == lock \subseteq {s}

ghosts == <<created, signupOk, likeCalls, stamp, savedBy>>

-----------------------------------------------------------------------------
(* Sign Up *)

SignupExecute(s, username, password) ==
    /\ pc[s] = "idle"
    /\ session[s].user_id = None
    /\ CanWrite(s)
    /\ lock' = lock \cup {s}
    /\ IF UniqueViolation(users, username)
       THEN /\ pc' = [pc EXCEPT ![s] = "signup_close"]
            /\ job' = [job EXCEPT ![s] = [op |-> "signup", username |-> username,
                                          password |-> password, tx |-> users]]
       ELSE /\ pc' = [pc EXCEPT ![s] = "signup_commit"]
            /\ job' = [job EXCEPT ![s] =
                         [op |-> "signup", username |-> username, password |-> password,
                          tx |-> Append(users, UserRow(users, username, password))]]
    /\ UNCHANGED <<users, artworks, session, page, ghosts>>

\* conn.commit(); return True; "Account created! Please login."
SignupCommit(s) ==
    /\ pc[s] = "signup_commit"
    /\ users' = job[s].tx
    /\ lock' = lock \ {s}
    /\ pc' = [pc EXCEPT ![s] = "idle"]
    /\ job' = [job EXCEPT ![s] = NoJob]
    /\ created' = created \cup
          { [username |-> job[s].username, password |-> job[s].password,
             id |-> job[s].tx[Len(job[s].tx)].id] }
    /\ signupOk' = [signupOk EXCEPT ![job[s].username] = @ + 1]
    /\ UNCHANGED <<artworks, session, page, likeCalls, stamp, savedBy>>

\* except sqlite3.IntegrityError: return False; finally: conn.close()
SignupClose(s) ==
    /\ pc[s] = "signup_close"
    /\ lock' = lock \ {s}
    /\ pc' = [pc EXCEPT ![s] = "idle"]
    /\ job' = [job EXCEPT ![s] = NoJob]
    /\ UNCHANGED <<users, artworks, session, page, ghosts>>

-----------------------------------------------------------------------------
(* Login, Logout *)

LoginSelect(s, username, password) ==
    /\ pc[s] = "idle"
    /\ session[s].user_id = None
    /\ pc' = [pc EXCEPT ![s] = "login_result"]
    /\ job' = [job EXCEPT ![s] = [op |-> "login", username |-> username,
                                  password |-> password,
                                  result |-> authenticate_user(users, username, password)]]
    /\ UNCHANGED <<users, artworks, session, lock, page, ghosts>>

\* the login branch without its  if user_id:  test
LoginSessionUnchecked(old, result, username) ==
    [user_id |-> result, username |-> Some(username)]

\* the session fields the login branch writes
LoginSession(old, result, username) ==
    IF result # None /\ ValueOf(result) # 0
    THEN [user_id |-> result, username |-> Some(username)]
    ELSE old

LoginFinish(s) ==
    /\ pc[s] = "login_result"
    /\ session' = [session EXCEPT ![s] = LoginSession(@, job[s].result, job[s].username)]
    /\ pc' = [pc EXCEPT ![s] = "idle"]
    /\ job' = [job EXCEPT ![s] = NoJob]
    /\ UNCHANGED <<users, artworks, lock, page, ghosts>>

Logout(s) ==
    /\ pc[s] = "idle"
    /\ session[s].user_id # None
    /\ session' = [session EXCEPT ![s] = LoggedOut]
    /\ UNCHANGED <<users, artworks, pc, job, lock, page, ghosts>>

-----------------------------------------------------------------------------
(* Save Artwork *)

\* a handler that hands over the newest account's id
SaveOwnerNewest(s) == MaxId(users)

\* the user id the handler hands to save_artwork
SaveOwner(s) == ValueOf(session[s].user_id)

SaveExecute(s, title, now) ==
    /\ pc[s] = "idle"
    /\ session[s].user_id # None
    /\ Len(artworks) < MaxArtworks
    /\ CanWrite(s)
    /\ lock' = lock \cup {s}
    /\ pc' = [pc EXCEPT ![s] = "save_commit"]
    /\ job' = [job EXCEPT ![s] =
                 [op |-> "save", now |-> now,
                  tx |-> Append(artworks, ArtworkRow(artworks, SaveOwner(s), title, "png", now))]]
    /\ UNCHANGED <<users, artworks, session, page, ghosts>>

SaveCommit(s) ==
    /\ pc[s] = "save_commit"
    /\ artworks' = job[s].tx
    /\ lock' = lock \ {s}
    /\ pc' = [pc EXCEPT ![s] = "idle"]
    /\ job' = [job EXCEPT ![s] = NoJob]
    /\ likeCalls' = Append(likeCalls, 0)
    /\ stamp' = Append(stamp, job[s].now)
    /\ savedBy' = Append(savedBy, ValueOf(session[s].user_id))
    /\ UNCHANGED <<users, session, page, created, signupOk>>

-----------------------------------------------------------------------------
(* Like *)

RECURSIVE TotalLikes(_)
TotalLikes(tbl) == IF tbl = <<>> THEN 0 ELSE Head(tbl).likes + TotalLikes(Tail(tbl))

\* the like buttons the gallery run draws
LikeButtons(search_term) ==
    LET cards == GalleryCards(get_artworks(artworks, users), search_term)
    IN { cards[i].artwork_id : i \in 1..Len(cards) }

LikeExecute(s, search_term, artwork_id) ==
    /\ pc[s] = "idle"
    /\ CanWrite(s)
    /\ TotalLikes(artworks) < MaxLikes
    /\ artwork_id \in LikeButtons(search_term)
    /\ lock' = lock \cup {s}
    /\ pc' = [pc EXCEPT ![s] = "like_commit"]
    /\ job' = [job EXCEPT ![s] = [op |-> "like", artwork_id |-> artwork_id,
                                  tx |-> LikeUpdate(artworks, artwork_id)]]
    /\ UNCHANGED <<users, artworks, session, page, ghosts>>

LikeCommit(s) ==
    /\ pc[s] = "like_commit"
    /\ artworks' = job[s].tx
    /\ lock' = lock \ {s}
    /\ pc' = [pc EXCEPT ![s] = "idle"]
    /\ job' = [job EXCEPT ![s] = NoJob]
    /\ likeCalls' = [i \in 1..Len(likeCalls) |->
                        IF i <= Len(artworks) /\ artworks[i].id = job[s].artwork_id
                        THEN likeCalls[i] + 1 ELSE likeCalls[i]]
    /\ UNCHANGED <<users, session, page, created, signupOk, stamp, savedBy>>

-----------------------------------------------------------------------------
(* Direct calls of the store and one gallery run, for the listing and the   *)
(* gallery loop: save_artwork takes whatever text it is given as image_data *)

StoreSave(user_id, title, image_data, now) ==
    /\ Len(artworks) < MaxArtworks
    /\ artworks' = Append(artworks, ArtworkRow(artworks, user_id, title, image_data, now))
    /\ likeCalls' = Append(likeCalls, 0)
    /\ stamp' = Append(stamp, now)
    /\ savedBy' = Append(savedBy, user_id)
    /\ page' = [kind |-> "drawing"]
    /\ UNCHANGED <<users, session, pc, job, lock, created, signupOk>>

GalleryRun(search_term) ==
    /\ page' = [kind |-> "gallery", search_term |-> search_term,
                rows |-> get_artworks(artworks, users),
                cards |-> GalleryCards(get_artworks(artworks, users), search_term)]
    /\ UNCHANGED <<users, artworks, session, pc, job, lock, ghosts>>

\* two accounts exist, nobody is logged in, no artwork is stored
InitGallery ==
    /\ users = << UserRow(<<>>, <<"a">>, "p"),
                  UserRow(<< UserRow(<<>>, <<"a">>, "p") >>, <<"K">>, "q") >>
    /\ artworks = <<>>
    /\ session = [s \in Sessions |-> LoggedOut]
    /\ pc = [s \in Sessions |-> "idle"]
    /\ job = [s \in Sessions |-> NoJob]
    /\ lock = {}
    /\ page = NoPage
    /\ created = { [username |-> <<"a">>, password |-> "p", id |-> 1],
                   [username |-> <<"K">>, password |-> "q", id |-> 2] }
    /\ signupOk = [u \in Usernames |-> 1]
    /\ likeCalls = <<>>
    /\ stamp = <<>>
    /\ savedBy = <<>>

-----------------------------------------------------------------------------
(* The application: every handler, from any session *)
Next ==
    \E s \in Sessions :
        \/ \E u \in Usernames, p \in AppPasswords : SignupExecute(s, u, p)
        \/ SignupCommit(s)
        \/ SignupClose(s)
        \/ \E u \in Usernames, p \in AppPasswords : LoginSelect(s, u, p)
        \/ LoginFinish(s)
        \/ Logout(s)
        \/ \E title \in Titles, now \in Times : SaveExecute(s, title, now)
        \/ SaveCommit(s)
        \/ \E term \in Terms, id \in 1..Len(artworks) : LikeExecute(s, term, id)
        \/ LikeCommit(s)

Spec == Init /\ [][Next]_vars

(* The account handlers alone, with every password *)
NextAccounts ==
    \E s \in Sessions :
        \/ \E u \in Usernames, p \in Passwords : SignupExecute(s, u, p)
        \/ SignupCommit(s)
        \/ SignupClose(s)
        \/ \E u \in Usernames, p \in Passwords : LoginSelect(s, u, p)
        \/ LoginFinish(s)
        \/ Logout(s)

SpecAccounts == Init /\ [][NextAccounts]_vars

(* The store's listing and the gallery loop on their own *)
NextGallery ==
    \/ \E uid \in 1..Len(users), title \in GalleryTitles, img \in Images, now \in GalleryTimes :
          StoreSave(users[uid].id, title, img, now)
    \/ \E term \in GalleryTerms : GalleryRun(term)

SpecGallery == InitGallery /\ [][NextGallery]_vars

-----------------------------------------------------------------------------
(* Properties *)

IdsOf(tbl) == { tbl[i].id : i \in 1..Len(tbl) }
Writing(s) == pc[s] \in {"save_commit", "like_commit"}

\* C1: every like_artwork call that has committed is counted: the likes of
\* an artwork equal the number of like_artwork calls made on its id, under
\* every interleaving of the sessions' execute and commit steps.
C1_NoLostLike ==
    /\ Len(likeCalls) = Len(artworks)
    /\ \A i \in 1..Len(artworks) : artworks[i].likes = likeCalls[i]

\* earlier likes of an artwork are committed and a session holds the write
\* lock with one more increment of the same artwork staged
C1_Witness ==
    \E s \in Sessions, i \in 1..Len(artworks) :
        /\ pc[s] = "like_commit"
        /\ job[s].artwork_id = artworks[i].id
        /\ artworks[i].likes = MaxLikes - 1
        /\ job[s].tx[i].likes = MaxLikes

\* C2: once create_user(username, password) has returned True, every later
\* authenticate_user(username, password) returns the id of the inserted row.
C2_CreateThenAuthenticate ==
    [][ \A s \in Sessions :
          (pc[s] = "idle" /\ pc'[s] = "login_result") =>
             \A c \in created :
                (c.username = job'[s].username /\ c.password = job'[s].password)
                   => job'[s].result = Some(c.id) ]_vars

\* with two accounts created, a login with the credentials of one of them
\* has its id in hand
C2_Witness ==
    \E s \in Sessions, c \in created :
        /\ pc[s] = "login_result"
        /\ job[s].username = c.username
        /\ job[s].password = c.password
        /\ job[s].result = Some(c.id)
        /\ Len(users) = 2

\* C3: create_user for a username that has a row fails whatever the
\* password and leaves the users table as it was; no two rows share a
\* username, and of the signups for one username exactly one succeeded.
C3_UsernamesUnique ==
    /\ \A i, j \in 1..Len(users) : users[i].username = users[j].username => i = j
    /\ \A u \in Usernames : signupOk[u] = IF UniqueViolation(users, u) THEN 1 ELSE 0

C3_DuplicateStep ==
    \A s \in Sessions :
        /\ (pc[s] = "idle" /\ pc'[s] \in {"signup_commit", "signup_close"}) =>
               (UniqueViolation(users, job'[s].username) <=> pc'[s] = "signup_close")
        /\ (pc[s] = "signup_close" \/ pc'[s] = "signup_close") => users' = users

C3_DuplicateUsernameFails == []C3_UsernamesUnique /\ [][C3_DuplicateStep]_vars

\* a signup is being turned down for a username whose row holds another password
C3_Witness ==
    \E s \in Sessions, i \in 1..Len(users) :
        /\ pc[s] = "signup_close"
        /\ users[i].username = job[s].username
        /\ users[i].password # hash_password(job[s].password)

\* C4: authenticate_user with the username of an account and a password
\* other than the one the account was created with returns None, and the
\* login that called it leaves the session logged out.
WrongPassword(s) ==
    /\ pc[s] = "login_result"
    /\ \E c \in created : c.username = job[s].username /\ c.password # job[s].password

C4_NoIdentity == \A s \in Sessions : WrongPassword(s) => job[s].result = None

C4_StaysLoggedOut ==
    \A s \in Sessions : (WrongPassword(s) /\ pc'[s] = "idle") => session'[s] = LoggedOut

C4_WrongPasswordRejected == []C4_NoIdentity /\ [][C4_StaysLoggedOut]_vars

\* a login with a wrong password for an account that exists has its answer
C4_Witness ==
    \E s \in Sessions : WrongPassword(s) /\ UniqueViolation(users, job[s].username)

\* C5: get_artworks returns every artwork once, later creation times first,
\* and artworks of one creation time in the order they were inserted.
Before(t1, t2) == t1.sec < t2.sec \/ (t1.sec = t2.sec /\ t1.usec < t2.usec)
PosOf(artwork_id) == CHOOSE k \in 1..Len(artworks) : artworks[k].id = artwork_id

CasePairs == { <<"a", "A">>, <<"k", "K">>, <<"o", "O">>, <<"s", "S">> }
SameLetter(c, d) == c = d \/ <<c, d>> \in CasePairs \/ <<d, c>> \in CasePairs
ContainsAnyCase(hay, needle) ==
    \E i \in 0..(Len(hay) - Len(needle)) :
        \A k \in 1..Len(needle) : SameLetter(hay[i + k], needle[k])
Matches(row, term) ==
    term = <<>> \/ ContainsAnyCase(row.title, term) \/ ContainsAnyCase(row.username, term)
MatchingRows(rows, term) == SelectSeq(rows, LAMBDA r : Matches(r, term))

C6_GalleryFilter ==
    page.kind = "gallery" =>
        LET want == MatchingRows(page.rows, page.search_term)
        IN /\ Len(page.cards) = Len(want)
           /\ \A i \in 1..Len(want) :
                 /\ page.cards[i].artwork_id = want[i].id
                 /\ page.cards[i].title = want[i].title
                 /\ page.cards[i].artist = want[i].username
                 /\ page.cards[i].likes = want[i].likes
                 /\ page.cards[i].image =
                       IF want[i].image_data = "corrupt" THEN "Image not available" ELSE "image"
           /\ page.search_term = <<>> => Len(page.cards) = Len(page.rows)

\* a search that keeps one of two entries by a capital letter of its title,
\* shown with the placeholder, and one that shows an entry after a placeholder
C6_Witness ==
    /\ page.kind = "gallery"
    /\ page.search_term = <<"k">>
    /\ Len(page.rows) = 2
    /\ Len(page.cards) = 2
    /\ page.cards[1].image = "Image not available"
    /\ page.cards[2].image = "image"
    /\ page.cards[1].title = <<"K", "o">>
    /\ page.cards[2].artist = <<"K">>
    /\ page.cards[2].title = <<"s">>

\* C7: every artwork's user_id is the id of a users row and is the user_id
\* the saving session had when it saved.
C7_OwnerExists ==
    /\ Len(savedBy) = Len(artworks)
    /\ \A i \in 1..Len(artworks) :
          /\ artworks[i].user_id \in IdsOf(users)
          /\ artworks[i].user_id = savedBy[i]

\* an artwork of the second account is stored and nobody is logged in
C7_Witness ==
    /\ \E i \in 1..Len(artworks) : artworks[i].user_id = 2
    /\ \A s \in Sessions : session[s] = LoggedOut

\* C8: an artwork starts with likes = 0; no step removes or edits a row or
\* changes its likes other than by adding 1; a like_artwork(id) changes the
\* row with that id alone, and nothing when there is no such row.
C8_RowsKept ==
    /\ Len(artworks') >= Len(artworks)
    /\ \A i \in 1..Len(artworks) :
          /\ artworks'[i].likes \in { artworks[i].likes, artworks[i].likes + 1 }
          /\ [artworks'[i] EXCEPT !.likes = 0] = [artworks[i] EXCEPT !.likes = 0]
    /\ \A i \in (Len(artworks) + 1)..Len(artworks') : artworks'[i].likes = 0
    /\ \A s \in Sessions :
          (pc[s] = "like_commit" /\ pc'[s] = "idle") =>
             /\ Len(artworks') = Len(artworks)
             /\ \A i \in 1..Len(artworks) :
                   artworks[i].id # job[s].artwork_id => artworks'[i] = artworks[i]

C8_NoSuchRow ==
    \A id \in 1..(MaxArtworks + 1) :
        id \notin IdsOf(artworks) => LikeUpdate(artworks, id) = artworks

C8_OnlyLikesGrow == []C8_NoSuchRow /\ [][C8_RowsKept]_vars

\* of two artworks one has been liked and the other has not
C8_Witness ==
    /\ Len(artworks) = 2
    /\ artworks[1].likes = 0
    /\ artworks[2].likes > 0

\* C9: no session writes to the artworks table while it is logged out.
C9_WritesNeedLogin ==
    \A s \in Sessions : Writing(s) => session[s].user_id # None

\* C10: a session's user_id and username are both None or both set, and set
\* they are the id and username of one users row; a signup does not touch
\* the session; only a login whose authenticate_user call returned an id
\* logs a session in; logout sets both to None.
C10_SessionValid ==
    \A s \in Sessions :
        \/ session[s] = LoggedOut
        \/ /\ session[s].user_id # None
           /\ session[s].username # None
           /\ \E k \in 1..Len(users) :
                 /\ users[k].id = ValueOf(session[s].user_id)
                 /\ users[k].username = ValueOf(session[s].username)

C10_SessionStep ==
    \A s \in Sessions :
        /\ (pc[s] \in {"signup_commit", "signup_close"} \/
            pc'[s] \in {"signup_commit", "signup_close"}) => session'[s] = session[s]
        /\ (session[s] = LoggedOut /\ session'[s] # LoggedOut) =>
              /\ pc[s] = "login_result"
              /\ job[s].result # None
              /\ session'[s] = [user_id |-> job[s].result, username |-> Some(job[s].username)]
        /\ (session[s] # LoggedOut /\ session'[s] # session[s]) =>
              /\ session'[s] = LoggedOut
              /\ pc[s] = "idle"

C10_SessionIdentity == []C10_SessionValid /\ [][C10_SessionStep]_vars

\* a session is logged in as the second account while a login of another
\* session is turned down
C10_Witness ==
    \E s, r \in Sessions :
        /\ session[s].user_id = Some(2)
        /\ pc[r] = "login_result"
        /\ job[r].result = None

====
